---- MODULE Spec2Model ----
(***************************************************************************)
(* Model of the two stateful components of the meta-automation-architect   *)
(* scripts:                                                                *)
(*   - rollback_manager.py : RollbackManager (session manifest, snapshot   *)
(*     tree, restore/delete pass)                                          *)
(*   - agent_reuse.py      : AgentReuseManager (record documents, index    *)
(*     document, the in-memory index of each manager instance)             *)
(* Documents on disk are JSON texts: they are written by JsonDump and read *)
(* back by JsonLoad.  A file that does not exist is NoFile.                *)
(***************************************************************************)
EXTENDS Integers, Sequences, FiniteSets, TLC

\* ------------------------------------------------------------------ bounds
MaxClock == 1          \* the clock runs over the instants 0..MaxClock
TicksPerSecond == 1    \* instants per wall-clock second
MaxSaves == 2          \* save_configuration calls per behaviour
MaxReuse == 2          \* reuse_configuration calls per behaviour

\* --------------------------------------------------------------- universes
Paths == {"a.txt", "b.txt"}
Original == "orig"                \* what a.txt holds before the session
Contents == {"new"}                \* what the automation writes
Absent == "absent"                 \* a path with no file
Descriptions == {"Automation setup"}
SessionId == "test-session"
Instants == 0..MaxClock

NoFile == <<>>                     \* a document that does not exist
CorruptDoc == << <<"#garbage">> >> \* a document json.load cannot parse

VARIABLES
    clock,          \* datetime.now(), in instants
    fs,             \* working tree: path -> content or Absent
    snaps,          \* backup_dir/<backup_id>/<path>: snapshot content or Absent
    manifest_file,  \* backup_dir/manifest.json: NoFile or a JSON document
    rb_ret,         \* what the last RollbackManager call returned
    firstSeen,      \* history: content of a path at its first backup call in this manifest
    backupCalls,    \* history: backup_file_before_change calls that copied the path (0, 1, 2 = many)
    callers,        \* per process calling rollback: where its call stands, the manifest it
                    \* read, and what its last rollback returned
    cfg_files,      \* storage_dir/<config_id>.json: NoFile or a JSON document
    index_file,     \* storage_dir/index.json: NoFile or a JSON document
    mgr,            \* per AgentReuseManager instance (one per process): whether it exists, its
                    \* self.index, and where its current call stands (pc, local config)
    ar_ret,         \* what the last AgentReuseManager call returned
    saveLog,        \* history: the save_configuration calls, id returned and payload
    streak,         \* history: reuse calls on one id made in a row, by the saving instance, right after its save
    nReuse          \* history: reuse_configuration calls that found their record

rb == <<fs, snaps, manifest_file, rb_ret, firstSeen, backupCalls, callers>>
ar == <<cfg_files, index_file, mgr, ar_ret, saveLog, streak, nReuse>>
vars == <<clock, rb, ar>>

\* ------------------------------------------------------------------- JSON
\* Keys in the order json.dump writes them (dict insertion order).
KeyOrder == <<"backup_id", "session_id", "project_type", "project_name", "tech_stack",
              "agents_used", "skills_generated", "commands_generated", "hooks_generated",
              "success_metrics", "user_satisfaction", "config_id", "created_at",
              "description", "backed_up_files", "created_files", "can_rollback",
              "rolled_back_at", "reuse_count", "configurations">>

\* json.dump(d, f): the object as its sequence of key/value members
JsonDump(d) ==
    LET keys == SelectSeq(KeyOrder, LAMBDA k : k \in DOMAIN d)
    IN [i \in 1..Len(keys) |-> <<keys[i], d[keys[i]]>>]

\* json.load raises on a text that is not JSON
Parses(doc) == doc # CorruptDoc

\* json.load(f): the dict of the members of the object
JsonLoad(doc) ==
    [k \in {doc[i][1] : i \in DOMAIN doc} |->
        doc[CHOOSE i \in DOMAIN doc : doc[i][1] = k][2]]

\* strftime("%Y%m%d_%H%M%S"): the instant truncated to its second
Strftime(t) == t \div TicksPerSecond

\* isoformat(): the instant at full resolution
IsoFormat(t) == t

BackupIds == {Strftime(t) : t \in Instants}

\* ------------------------------------------------------ RollbackManager
MsgNoBackup == "No backup found for this session"
MsgAlready == "Rollback already performed or backup corrupted"
MsgPreviewNone == "No backup found"

\* the value a call returns, in one shape for every call, with the path the
\* call was made for
Ret(op) == [op |-> op, file_path |-> "", success |-> FALSE, performed |-> FALSE,
            message |-> "",
            files_restored |-> <<>>, files_deleted |-> <<>>, errors |-> <<>>,
            can_rollback |-> FALSE, will_restore |-> <<>>, will_delete |-> <<>>]

\* _load_manifest returns a dict (not None)
HasManifest == manifest_file # NoFile /\ Parses(manifest_file)

\* _load_manifest, where it returns a dict
LoadManifest == JsonLoad(manifest_file)

\* _save_manifest
SaveManifest(m) == manifest_file' = JsonDump(m)

InSeq(x, s) == \E i \in DOMAIN s : s[i] = x
Range(s) == {s[i] : i \in DOMAIN s}

NoHistory == [p \in Paths |-> "none"]
NoCalls == [p \in Paths |-> 0]

\* the processes that may call rollback on the session, each with its own
\* RollbackManager; NoCall is a process between calls that has not returned
\* from a rollback yet
Callers == {"p1", "p2"}
NoCall == [pc |-> "idle", manifest |-> <<>>, st |-> <<>>, result |-> Ret("init")]

RbInit ==
    /\ clock = 0
    /\ fs = [p \in Paths |-> IF p = "a.txt" THEN Original ELSE Absent]
    /\ snaps = [b \in BackupIds |-> [p \in Paths |-> Absent]]
    /\ manifest_file = NoFile
    /\ rb_ret = Ret("init")
    /\ firstSeen = NoHistory
    /\ backupCalls = NoCalls
    /\ callers = [c \in Callers |-> NoCall]

create_backup(description) ==
    LET backup_id == Strftime(clock)
        manifest == [backup_id |-> backup_id,
                     session_id |-> SessionId,
                     created_at |-> IsoFormat(clock),
                     description |-> description,
                     backed_up_files |-> <<>>,
                     created_files |-> <<>>,
                     can_rollback |-> TRUE]
    IN /\ manifest_file' = JsonDump(manifest)
       /\ rb_ret' = [Ret("create_backup") EXCEPT !.success = TRUE]
       /\ firstSeen' = NoHistory
       /\ backupCalls' = NoCalls
       /\ UNCHANGED <<ar, callers, clock, fs, snaps>>

\* a tracking call that appends the path whether or not it is listed
track_file_creation_always(file_path) ==
    /\ IF HasManifest
       THEN LET manifest == LoadManifest
                created == Append(manifest.created_files, file_path)
            IN SaveManifest([manifest EXCEPT !.created_files = created])
       ELSE UNCHANGED manifest_file
    /\ rb_ret' = [Ret("track_file_creation") EXCEPT !.file_path = file_path]
    /\ UNCHANGED <<ar, callers, clock, fs, snaps, firstSeen, backupCalls>>

track_file_creation(file_path) ==
    /\ IF HasManifest
       THEN LET manifest == LoadManifest
                created == IF InSeq(file_path, manifest.created_files)
                           THEN manifest.created_files
                           ELSE Append(manifest.created_files, file_path)
            IN SaveManifest([manifest EXCEPT !.created_files = created])
       ELSE UNCHANGED manifest_file
    /\ rb_ret' = [Ret("track_file_creation") EXCEPT !.file_path = file_path]
    /\ UNCHANGED <<ar, callers, clock, fs, snaps, firstSeen, backupCalls>>

\* a backup call without the test of line 78: a missing file is recorded too
backup_file_before_change_noExistsCheck(file_path) ==
    /\ IF HasManifest
       THEN LET manifest == LoadManifest
                backup_id == manifest.backup_id
                rel_path == file_path
                backed == IF InSeq(rel_path, manifest.backed_up_files)
                          THEN manifest.backed_up_files
                          ELSE Append(manifest.backed_up_files, rel_path)
            IN /\ snaps' = [snaps EXCEPT ![backup_id][rel_path] = fs[file_path]]
               /\ SaveManifest([manifest EXCEPT !.backed_up_files = backed])
               /\ firstSeen' = [firstSeen EXCEPT ![file_path] =
                                    IF @ = "none" THEN fs[file_path] ELSE @]
               /\ backupCalls' = [backupCalls EXCEPT ![file_path] =
                                    IF @ < 2 THEN @ + 1 ELSE @]
       ELSE UNCHANGED <<snaps, manifest_file, firstSeen, backupCalls>>
    /\ rb_ret' = [Ret("backup_file_before_change") EXCEPT !.file_path = file_path]
    /\ UNCHANGED <<ar, callers, clock, fs>>

\* a backup call that records the path and copies nothing
backup_file_before_change_noCopy(file_path) ==
    /\ IF HasManifest /\ fs[file_path] # Absent
       THEN LET manifest == LoadManifest
                backup_id == manifest.backup_id
                rel_path == file_path
                backed == IF InSeq(rel_path, manifest.backed_up_files)
                          THEN manifest.backed_up_files
                          ELSE Append(manifest.backed_up_files, rel_path)
            IN /\ snaps' = snaps
               /\ SaveManifest([manifest EXCEPT !.backed_up_files = backed])
               /\ firstSeen' = [firstSeen EXCEPT ![file_path] =
                                    IF @ = "none" THEN fs[file_path] ELSE @]
               /\ backupCalls' = [backupCalls EXCEPT ![file_path] =
                                    IF @ < 2 THEN @ + 1 ELSE @]
       ELSE UNCHANGED <<snaps, manifest_file, firstSeen, backupCalls>>
    /\ rb_ret' = [Ret("backup_file_before_change") EXCEPT !.file_path = file_path]
    /\ UNCHANGED <<ar, callers, clock, fs>>

backup_file_before_change(file_path) ==
    /\ IF HasManifest /\ fs[file_path] # Absent
       THEN LET manifest == LoadManifest
                backup_id == manifest.backup_id
                rel_path == file_path
                backed == IF InSeq(rel_path, manifest.backed_up_files)
                          THEN manifest.backed_up_files
                          ELSE Append(manifest.backed_up_files, rel_path)
            IN /\ snaps' = [snaps EXCEPT ![backup_id][rel_path] = fs[file_path]]
               /\ SaveManifest([manifest EXCEPT !.backed_up_files = backed])
               /\ firstSeen' = [firstSeen EXCEPT ![file_path] =
                                    IF @ = "none" THEN fs[file_path] ELSE @]
               /\ backupCalls' = [backupCalls EXCEPT ![file_path] =
                                    IF @ < 2 THEN @ + 1 ELSE @]
       ELSE UNCHANGED <<snaps, manifest_file, firstSeen, backupCalls>>
    /\ rb_ret' = [Ret("backup_file_before_change") EXCEPT !.file_path = file_path]
    /\ UNCHANGED <<ar, callers, clock, fs>>

\* the restore loop, giving up at the first path that fails
RECURSIVE RestoreLoop_abort(_, _, _, _, _)
RestoreLoop_abort(files, i, snapdir, raising, st) ==
    IF i > Len(files) THEN st
    ELSE LET file_path == files[i]
         IN IF snapdir[file_path] # Absent /\ file_path \notin raising
            THEN RestoreLoop_abort(files, i + 1, snapdir, raising,
                     [st EXCEPT !.fs[file_path] = snapdir[file_path],
                                !.files_restored = Append(@, file_path)])
            ELSE [st EXCEPT !.errors = Append(@, <<"Error restoring", file_path>>)]

\* the restore loop, reporting a path as restored without copying it
RECURSIVE RestoreLoop_nocopy(_, _, _, _, _)
RestoreLoop_nocopy(files, i, snapdir, raising, st) ==
    IF i > Len(files) THEN st
    ELSE RestoreLoop_nocopy(files, i + 1, snapdir, raising,
             [st EXCEPT !.files_restored = Append(@, files[i])])

\* The restore loop of rollback (lines 126-138) from position i on.  st carries
\* the working tree and the three result lists; raising is the set of paths
\* whose mkdir/copy2 raises.
RECURSIVE RestoreLoop(_, _, _, _, _)
RestoreLoop(files, i, snapdir, raising, st) ==
    IF i > Len(files) THEN st
    ELSE LET file_path == files[i]
             next == IF snapdir[file_path] # Absent
                     THEN IF file_path \in raising
                          THEN [st EXCEPT !.errors =
                                   Append(@, <<"Error restoring", file_path>>)]
                          ELSE [st EXCEPT !.fs[file_path] = snapdir[file_path],
                                          !.files_restored = Append(@, file_path)]
                     ELSE [st EXCEPT !.errors =
                              Append(@, <<"Backup not found", file_path>>)]
         IN RestoreLoop(files, i + 1, snapdir, raising, next)

\* the delete loop without the test of line 144: unlink raises for a
\* missing file
RECURSIVE DeleteLoop_noExistsCheck(_, _, _, _)
DeleteLoop_noExistsCheck(files, i, raising, st) ==
    IF i > Len(files) THEN st
    ELSE LET file_path == files[i]
             next == IF st.fs[file_path] # Absent
                     THEN IF file_path \in raising
                          THEN [st EXCEPT !.errors =
                                   Append(@, <<"Error deleting", file_path>>)]
                          ELSE [st EXCEPT !.fs[file_path] = Absent,
                                          !.files_deleted = Append(@, file_path)]
                     ELSE [st EXCEPT !.errors =
                              Append(@, <<"Error deleting", file_path>>)]
         IN DeleteLoop_noExistsCheck(files, i + 1, raising, next)

\* The delete loop of rollback (lines 141-148) from position i on; raising is
\* the set of paths whose unlink raises.
RECURSIVE DeleteLoop(_, _, _, _)
DeleteLoop(files, i, raising, st) ==
    IF i > Len(files) THEN st
    ELSE LET file_path == files[i]
             next == IF st.fs[file_path] # Absent
                     THEN IF file_path \in raising
                          THEN [st EXCEPT !.errors =
                                   Append(@, <<"Error deleting", file_path>>)]
                          ELSE [st EXCEPT !.fs[file_path] = Absent,
                                          !.files_deleted = Append(@, file_path)]
                     ELSE st
         IN DeleteLoop(files, i + 1, raising, next)

\* line 112: the manifest was consumed by an earlier rollback
RollbackRefused_never(manifest) == FALSE

RollbackRefused(manifest) == ~manifest.can_rollback

\* lines 151-152: the manifest marked as rolled back at instant t
RolledBack_keepsFlag(manifest, t) ==
    [k \in DOMAIN manifest \cup {"rolled_back_at"} |->
        IF k = "rolled_back_at" THEN IsoFormat(t) ELSE manifest[k]]

RolledBack(manifest, t) ==
    [k \in DOMAIN manifest \cup {"rolled_back_at"} |->
        IF k = "can_rollback" THEN FALSE
        ELSE IF k = "rolled_back_at" THEN IsoFormat(t)
        ELSE manifest[k]]

\* rollback with the delete pass before the restore pass
rollback_with_deleteFirst(restoreRaises, deleteRaises) ==
    IF ~HasManifest
    THEN /\ rb_ret' = [Ret("rollback") EXCEPT !.message = MsgNoBackup]
         /\ UNCHANGED <<ar, callers, clock, fs, snaps, manifest_file, firstSeen, backupCalls>>
    ELSE LET manifest == LoadManifest IN
         IF RollbackRefused(manifest)
         THEN /\ rb_ret' = [Ret("rollback") EXCEPT !.message = MsgAlready]
              /\ UNCHANGED <<ar, callers, clock, fs, snaps, manifest_file, firstSeen, backupCalls>>
         ELSE LET st0 == [fs |-> fs, files_restored |-> <<>>,
                          files_deleted |-> <<>>, errors |-> <<>>]
                  st1 == DeleteLoop(manifest.created_files, 1, deleteRaises, st0)
                  st2 == RestoreLoop(manifest.backed_up_files, 1,
                                     snaps[manifest.backup_id], restoreRaises, st1)
              IN /\ fs' = st2.fs
                 /\ SaveManifest(RolledBack(manifest, clock))
                 /\ rb_ret' = [Ret("rollback") EXCEPT
                                  !.success = (Len(st2.errors) = 0),
                                  !.performed = TRUE,
                                  !.files_restored = st2.files_restored,
                                  !.files_deleted = st2.files_deleted,
                                  !.errors = st2.errors]
                 /\ UNCHANGED <<ar, callers, clock, snaps, firstSeen, backupCalls>>

\* rollback where copy2 raises for the paths of restoreRaises and unlink
\* raises for the paths of deleteRaises
rollback_with(restoreRaises, deleteRaises) ==
    IF ~HasManifest
    THEN /\ rb_ret' = [Ret("rollback") EXCEPT !.message = MsgNoBackup]
         /\ UNCHANGED <<ar, callers, clock, fs, snaps, manifest_file, firstSeen, backupCalls>>
    ELSE LET manifest == LoadManifest IN
         IF RollbackRefused(manifest)
         THEN /\ rb_ret' = [Ret("rollback") EXCEPT !.message = MsgAlready]
              /\ UNCHANGED <<ar, callers, clock, fs, snaps, manifest_file, firstSeen, backupCalls>>
         ELSE LET st0 == [fs |-> fs, files_restored |-> <<>>,
                          files_deleted |-> <<>>, errors |-> <<>>]
                  st1 == RestoreLoop(manifest.backed_up_files, 1,
                                     snaps[manifest.backup_id], restoreRaises, st0)
                  st2 == DeleteLoop(manifest.created_files, 1, deleteRaises, st1)
              IN /\ fs' = st2.fs
                 /\ SaveManifest(RolledBack(manifest, clock))
                 /\ rb_ret' = [Ret("rollback") EXCEPT
                                  !.success = (Len(st2.errors) = 0),
                                  !.performed = TRUE,
                                  !.files_restored = st2.files_restored,
                                  !.files_deleted = st2.files_deleted,
                                  !.errors = st2.errors]
                 /\ UNCHANGED <<ar, callers, clock, snaps, firstSeen, backupCalls>>

\* rollback under any outcome of its filesystem calls: copy2 can raise for a
\* path whose snapshot is there, unlink for a path that is listed as created
rollback ==
    \E restoreRaises \in SUBSET Paths, deleteRaises \in SUBSET Paths :
        /\ HasManifest /\ LoadManifest.can_rollback
              => /\ restoreRaises \subseteq Range(LoadManifest.backed_up_files)
                 /\ deleteRaises \subseteq Range(LoadManifest.created_files)
        /\ ~(HasManifest /\ LoadManifest.can_rollback)
              => restoreRaises = {} /\ deleteRaises = {}
        /\ rollback_with(restoreRaises, deleteRaises)

\* rollback when no filesystem call raises
rollback_ok == rollback_with({}, {})

\* ---- rollback taken apart at its reads and writes of the manifest, as the
\* call of one of several processes (no filesystem call raises)
\* lines 105-120: read the manifest, return if there is none or it is consumed
rollback_begin(c) ==
    /\ callers[c].pc = "idle"
    /\ IF ~HasManifest \/ RollbackRefused(LoadManifest)
       THEN LET result == [Ret("rollback") EXCEPT
                              !.message = IF ~HasManifest THEN MsgNoBackup
                                          ELSE MsgAlready]
            IN /\ rb_ret' = result
               /\ callers' = [callers EXCEPT ![c].result = result]
       ELSE /\ callers' = [callers EXCEPT ![c].pc = "begun",
                                          ![c].manifest = LoadManifest]
            /\ UNCHANGED rb_ret
    /\ UNCHANGED <<ar, clock, fs, snaps, manifest_file, firstSeen, backupCalls>>

\* the passes of a call that first reads the manifest again and does nothing
\* when another call has consumed it
rollback_passes_rechecks(c) ==
    /\ callers[c].pc = "begun"
    /\ LET manifest == callers[c].manifest
           st0 == [fs |-> fs, files_restored |-> <<>>,
                   files_deleted |-> <<>>, errors |-> <<>>]
           st1 == RestoreLoop(manifest.backed_up_files, 1,
                              snaps[manifest.backup_id], {}, st0)
           st2 == IF HasManifest /\ RollbackRefused(LoadManifest)
                  THEN st0
                  ELSE DeleteLoop(manifest.created_files, 1, {}, st1)
       IN /\ fs' = st2.fs
          /\ callers' = [callers EXCEPT ![c].pc = "passed", ![c].st = st2]
    /\ UNCHANGED <<ar, clock, snaps, manifest_file, rb_ret, firstSeen, backupCalls>>

\* lines 122-148: the restore pass and the delete pass, from the manifest
\* that was read
rollback_passes(c) ==
    /\ callers[c].pc = "begun"
    /\ LET manifest == callers[c].manifest
           st0 == [fs |-> fs, files_restored |-> <<>>,
                   files_deleted |-> <<>>, errors |-> <<>>]
           st1 == RestoreLoop(manifest.backed_up_files, 1,
                              snaps[manifest.backup_id], {}, st0)
           st2 == DeleteLoop(manifest.created_files, 1, {}, st1)
       IN /\ fs' = st2.fs
          /\ callers' = [callers EXCEPT ![c].pc = "passed", ![c].st = st2]
    /\ UNCHANGED <<ar, clock, snaps, manifest_file, rb_ret, firstSeen, backupCalls>>

\* lines 150-161: write the manifest that was read, marked as rolled back,
\* and return the report
rollback_mark(c) ==
    /\ callers[c].pc = "passed"
    /\ LET st == callers[c].st
           result == [Ret("rollback") EXCEPT
                         !.success = (Len(st.errors) = 0),
                         !.performed = TRUE,
                         !.files_restored = st.files_restored,
                         !.files_deleted = st.files_deleted,
                         !.errors = st.errors]
       IN /\ SaveManifest(RolledBack(callers[c].manifest, clock))
          /\ rb_ret' = result
          /\ callers' = [callers EXCEPT ![c] = [NoCall EXCEPT !.result = result]]
    /\ UNCHANGED <<ar, clock, fs, snaps, firstSeen, backupCalls>>

\* a preview that consumes the manifest it reports on
preview_rollback_consumes ==
    /\ rb_ret' = IF ~HasManifest
                 THEN [Ret("preview_rollback") EXCEPT !.message = MsgPreviewNone]
                 ELSE LET manifest == LoadManifest
                      IN [Ret("preview_rollback") EXCEPT
                             !.success = TRUE,
                             !.can_rollback = manifest.can_rollback,
                             !.will_restore = manifest.backed_up_files,
                             !.will_delete = manifest.created_files]
    /\ IF HasManifest
       THEN SaveManifest([LoadManifest EXCEPT !.can_rollback = FALSE])
       ELSE UNCHANGED manifest_file
    /\ UNCHANGED <<ar, callers, clock, fs, snaps, firstSeen, backupCalls>>

preview_rollback ==
    /\ rb_ret' = IF ~HasManifest
                 THEN [Ret("preview_rollback") EXCEPT !.message = MsgPreviewNone]
                 ELSE LET manifest == LoadManifest
                      IN [Ret("preview_rollback") EXCEPT
                             !.success = TRUE,
                             !.can_rollback = manifest.can_rollback,
                             !.will_restore = manifest.backed_up_files,
                             !.will_delete = manifest.created_files]
    /\ UNCHANGED <<ar, callers, clock, fs, snaps, manifest_file, firstSeen, backupCalls>>

\* ---- the caller and the environment of a session
\* the automation (or the user) writes a file: Path(p).write_text(c)
WriteFile(p, c) ==
    /\ fs[p] # c
    /\ fs' = [fs EXCEPT ![p] = c]
    /\ rb_ret' = Ret("write")
    /\ UNCHANGED <<ar, callers, clock, snaps, manifest_file, firstSeen, backupCalls>>

\* a file is removed outside the manager
RemoveFile(p) ==
    /\ fs[p] # Absent
    /\ fs' = [fs EXCEPT ![p] = Absent]
    /\ rb_ret' = Ret("remove")
    /\ UNCHANGED <<ar, callers, clock, snaps, manifest_file, firstSeen, backupCalls>>

\* a snapshot file of the current backup is removed outside the manager
RemoveSnapshot(p) ==
    /\ HasManifest
    /\ snaps[LoadManifest.backup_id][p] # Absent
    /\ snaps' = [snaps EXCEPT ![LoadManifest.backup_id][p] = Absent]
    /\ rb_ret' = Ret("remove_snapshot")
    /\ UNCHANGED <<ar, callers, clock, fs, manifest_file, firstSeen, backupCalls>>

\* manifest.json is damaged outside the manager: it exists but json.load
\* raises on it (lines 207-211)
CorruptManifest ==
    /\ manifest_file # NoFile
    /\ manifest_file # CorruptDoc
    /\ manifest_file' = CorruptDoc
    /\ rb_ret' = Ret("corrupt")
    /\ UNCHANGED <<ar, callers, clock, fs, snaps, firstSeen, backupCalls>>

\* time passes
RbTick ==
    /\ clock < MaxClock
    /\ clock' = clock + 1
    /\ rb_ret' = Ret("tick")
    /\ UNCHANGED <<ar, callers, fs, snaps, manifest_file, firstSeen, backupCalls>>

\* ---------------------------------------------------- AgentReuseManager
Managers == {"m1", "m2"}
ConfigIds == {Strftime(t) : t \in Instants}

\* the payload of the example run (lines 256-269), and a second one
ExampleConfig ==
    [project_type |-> "programming", project_name |-> "my-web-app",
     tech_stack |-> <<"TypeScript", "React", "Next.js">>,
     agents_used |-> <<"project-analyzer", "security-analyzer">>,
     skills_generated |-> <<"security-scanner">>,
     commands_generated |-> <<"/security-check">>,
     hooks_generated |-> <<"pre-commit-security">>,
     success_metrics |-> [time_saved |-> 50, issues_prevented |-> 3],
     user_satisfaction |-> 5]

OtherConfig ==
    [project_type |-> "documentation", project_name |-> "handbook",
     tech_stack |-> <<"Markdown">>,
     agents_used |-> <<"project-analyzer">>,
     skills_generated |-> <<>>,
     commands_generated |-> <<"/check-links">>,
     hooks_generated |-> <<>>,
     success_metrics |-> [time_saved |-> 10, issues_prevented |-> 0],
     user_satisfaction |-> 4]

Configs == {ExampleConfig, OtherConfig}

\* json.dump / json.load of the index: an object whose "configurations"
\* member is the list of the entry objects
DumpIndex(index) ==
    JsonDump([configurations |->
                 [i \in DOMAIN index.configurations |->
                     JsonDump(index.configurations[i])]])

ParseIndex(doc) ==
    LET d == JsonLoad(doc)
    IN [configurations |->
           [i \in DOMAIN d.configurations |-> JsonLoad(d.configurations[i])]]

\* _load_index: the document, or the empty index when the file is missing
\* or does not parse
LoadIndex ==
    IF index_file # NoFile /\ Parses(index_file)
    THEN ParseIndex(index_file)
    ELSE [configurations |-> <<>>]

\* _load_configuration returns a dict (not None)
HasConfiguration(config_id) ==
    cfg_files[config_id] # NoFile /\ Parses(cfg_files[config_id])

\* _load_configuration, where it returns a dict
LoadConfiguration(config_id) == JsonLoad(cfg_files[config_id])

ArRet(op, m, config_id, found) ==
    [op |-> op, mgr |-> m, config_id |-> config_id, found |-> found]

NoStreak == [mgr |-> "m1", config_id |-> 0, n |-> 0 - 1]

ArInit ==
    /\ cfg_files = [c \in ConfigIds |-> NoFile]
    /\ index_file = NoFile
    /\ mgr = [m \in Managers |->
                 [alive |-> m = "m1", index |-> [configurations |-> <<>>],
                  pc |-> "idle", config |-> <<>>]]
    /\ ar_ret = ArRet("init", "m1", 0 - 1, FALSE)
    /\ saveLog = <<>>
    /\ streak = NoStreak
    /\ nReuse = 0

\* AgentReuseManager(storage_path): a (new) instance m on the same directory
Construct(m) ==
    /\ mgr' = [mgr EXCEPT ![m] = [alive |-> TRUE, index |-> LoadIndex,
                               pc |-> "idle", config |-> <<>>]]
    /\ ar_ret' = ArRet("init", m, 0 - 1, FALSE)
    /\ streak' = NoStreak
    /\ UNCHANGED <<rb, clock, cfg_files, index_file, saveLog, nReuse>>

\* lines 74-81: the index entry of a new record
IndexEntry(config, config_id, created_at) ==
    [config_id |-> config_id,
     project_type |-> config.project_type,
     project_name |-> IF "project_name" \in DOMAIN config
                      THEN config.project_name ELSE "unknown",
     tech_stack |-> IF "tech_stack" \in DOMAIN config
                    THEN config.tech_stack ELSE <<>>,
     created_at |-> created_at,
     reuse_count |-> 0]

save_configuration(m, config) ==
    /\ mgr[m].alive
    /\ Len(saveLog) < MaxSaves
    /\ LET config_id == Strftime(clock)
           config_with_meta == [config_id |-> config_id,
                                created_at |-> IsoFormat(clock),
                                reuse_count |-> 0] @@ config
           index == [configurations |->
                        Append(mgr[m].index.configurations,
                               IndexEntry(config, config_id, config_with_meta.created_at))]
       IN /\ cfg_files' = [cfg_files EXCEPT ![config_id] = JsonDump(config_with_meta)]
          /\ mgr' = [mgr EXCEPT ![m].index = index]
          /\ index_file' = DumpIndex(index)
          /\ ar_ret' = ArRet("save_configuration", m, config_id, TRUE)
          /\ saveLog' = Append(saveLog, [config_id |-> config_id, config |-> config])
          /\ streak' = [mgr |-> m, config_id |-> config_id, n |-> 0]
    /\ UNCHANGED <<rb, clock, nReuse>>

reuse_configuration_writesIndex(m, config_id) ==
    /\ mgr[m].alive
    /\ nReuse < MaxReuse
    /\ IF ~HasConfiguration(config_id)
       THEN /\ ar_ret' = ArRet("reuse_configuration", m, config_id, FALSE)
            /\ streak' = NoStreak
            /\ index_file' = DumpIndex(mgr[m].index)
            /\ UNCHANGED <<cfg_files, mgr, nReuse>>
       ELSE LET loaded == LoadConfiguration(config_id)
                config == [loaded EXCEPT !.reuse_count = @ + 1]
                old == mgr[m].index.configurations
                index == [configurations |->
                             [i \in DOMAIN old |->
                                 IF old[i].config_id = config_id
                                 THEN [old[i] EXCEPT !.reuse_count = @ + 1]
                                 ELSE old[i]]]
            IN /\ cfg_files' = [cfg_files EXCEPT ![config_id] = JsonDump(config)]
               /\ mgr' = [mgr EXCEPT ![m].index = index]
               /\ index_file' = DumpIndex(index)
               /\ ar_ret' = ArRet("reuse_configuration", m, config_id, TRUE)
               /\ streak' = IF streak.mgr = m /\ streak.config_id = config_id /\ streak.n >= 0
                            THEN [streak EXCEPT !.n = @ + 1]
                            ELSE NoStreak
               /\ nReuse' = nReuse + 1
    /\ UNCHANGED <<rb, clock, saveLog>>

reuse_configuration(m, config_id) ==
    /\ mgr[m].alive
    /\ nReuse < MaxReuse
    /\ IF ~HasConfiguration(config_id)
       THEN /\ ar_ret' = ArRet("reuse_configuration", m, config_id, FALSE)
            /\ streak' = NoStreak
            /\ UNCHANGED <<cfg_files, mgr, index_file, nReuse>>
       ELSE LET loaded == LoadConfiguration(config_id)
                config == [loaded EXCEPT !.reuse_count = @ + 1]
                old == mgr[m].index.configurations
                index == [configurations |->
                             [i \in DOMAIN old |->
                                 IF old[i].config_id = config_id
                                 THEN [old[i] EXCEPT !.reuse_count = @ + 1]
                                 ELSE old[i]]]
            IN /\ cfg_files' = [cfg_files EXCEPT ![config_id] = JsonDump(config)]
               /\ mgr' = [mgr EXCEPT ![m].index = index]
               /\ index_file' = DumpIndex(index)
               /\ ar_ret' = ArRet("reuse_configuration", m, config_id, TRUE)
               /\ streak' = IF streak.mgr = m /\ streak.config_id = config_id /\ streak.n >= 0
                            THEN [streak EXCEPT !.n = @ + 1]
                            ELSE NoStreak
               /\ nReuse' = nReuse + 1
    /\ UNCHANGED <<rb, clock, saveLog>>

\* time passes
ArTick ==
    /\ clock < MaxClock
    /\ clock' = clock + 1
    /\ UNCHANGED <<rb, ar>>

ArNext ==
    \/ \E m \in Managers : Construct(m)
    \/ \E m \in Managers, config \in Configs : save_configuration(m, config)
    \/ \E m \in Managers, config_id \in ConfigIds : reuse_configuration(m, config_id)
    \/ ArTick

\* ---- the calls of two processes taken apart at their file accesses
\* A process is idle between calls; inside reuse_configuration it is at
\* "loaded" after line 162 and at "stored" after line 168; inside
\* save_configuration it is at "written" after line 71.  config is the
\* call's local variable.
Idle(m) == mgr[m].alive /\ mgr[m].pc = "idle"

\* lines 162-164: read the record
reuse_load(m, config_id) ==
    /\ Idle(m)
    /\ nReuse < MaxReuse
    /\ IF ~HasConfiguration(config_id)
       THEN /\ ar_ret' = ArRet("reuse_configuration", m, config_id, FALSE)
            /\ UNCHANGED mgr
       ELSE /\ mgr' = [mgr EXCEPT ![m].pc = "loaded",
                                  ![m].config = LoadConfiguration(config_id)]
            /\ UNCHANGED ar_ret
    /\ streak' = NoStreak
    /\ UNCHANGED <<rb, clock, cfg_files, index_file, saveLog, nReuse>>

\* a write that reads the record again and adds one to what is on disk
reuse_store_rereads(m) ==
    /\ mgr[m].alive /\ mgr[m].pc = "loaded"
    /\ LET config_id == mgr[m].config.config_id
           current == IF HasConfiguration(config_id)
                      THEN LoadConfiguration(config_id) ELSE mgr[m].config
           config == [current EXCEPT !.reuse_count = @ + 1]
       IN /\ cfg_files' = [cfg_files EXCEPT ![config_id] = JsonDump(config)]
          /\ mgr' = [mgr EXCEPT ![m].pc = "stored", ![m].config = config]
    /\ nReuse' = nReuse + 1
    /\ UNCHANGED <<rb, clock, index_file, ar_ret, saveLog, streak>>

\* lines 167-168: add one to the count that was read, write the record
reuse_store(m) ==
    /\ mgr[m].alive /\ mgr[m].pc = "loaded"
    /\ LET config == [mgr[m].config EXCEPT !.reuse_count = @ + 1]
       IN /\ cfg_files' = [cfg_files EXCEPT ![config.config_id] = JsonDump(config)]
          /\ mgr' = [mgr EXCEPT ![m].pc = "stored", ![m].config = config]
    /\ nReuse' = nReuse + 1
    /\ UNCHANGED <<rb, clock, index_file, ar_ret, saveLog, streak>>

\* lines 171-176: count in the process's own index, write the index, return
reuse_index(m) ==
    /\ mgr[m].alive /\ mgr[m].pc = "stored"
    /\ LET config_id == mgr[m].config.config_id
           old == mgr[m].index.configurations
           index == [configurations |->
                        [i \in DOMAIN old |->
                            IF old[i].config_id = config_id
                            THEN [old[i] EXCEPT !.reuse_count = @ + 1]
                            ELSE old[i]]]
       IN /\ mgr' = [mgr EXCEPT ![m].index = index, ![m].pc = "idle",
                                ![m].config = <<>>]
          /\ index_file' = DumpIndex(index)
          /\ ar_ret' = ArRet("reuse_configuration", m, config_id, TRUE)
    /\ UNCHANGED <<rb, clock, cfg_files, saveLog, streak, nReuse>>

\* lines 58-71: choose the id, write the record
save_record(m, config) ==
    /\ Idle(m)
    /\ Len(saveLog) < MaxSaves
    /\ LET config_id == Strftime(clock)
           config_with_meta == [config_id |-> config_id,
                                created_at |-> IsoFormat(clock),
                                reuse_count |-> 0] @@ config
       IN /\ cfg_files' = [cfg_files EXCEPT ![config_id] = JsonDump(config_with_meta)]
          /\ mgr' = [mgr EXCEPT ![m].pc = "written", ![m].config = config_with_meta]
          /\ saveLog' = Append(saveLog, [config_id |-> config_id, config |-> config])
    /\ streak' = NoStreak
    /\ UNCHANGED <<rb, clock, index_file, ar_ret, nReuse>>

\* lines 74-84: append the entry to the process's own index, write the index
save_index(m) ==
    /\ mgr[m].alive /\ mgr[m].pc = "written"
    /\ LET config == mgr[m].config
           index == [configurations |->
                        Append(mgr[m].index.configurations,
                               IndexEntry(config, config.config_id, config.created_at))]
       IN /\ mgr' = [mgr EXCEPT ![m].index = index, ![m].pc = "idle",
                                ![m].config = <<>>]
          /\ index_file' = DumpIndex(index)
          /\ ar_ret' = ArRet("save_configuration", m, config.config_id, TRUE)
    /\ UNCHANGED <<rb, clock, cfg_files, saveLog, streak, nReuse>>

RaceNext ==
    \/ \E m \in Managers : ~mgr[m].alive /\ Construct(m)
    \/ \E m \in Managers, config \in Configs : save_record(m, config)
    \/ \E m \in Managers : save_index(m)
    \/ \E m \in Managers, config_id \in ConfigIds : reuse_load(m, config_id)
    \/ \E m \in Managers : reuse_store(m)
    \/ \E m \in Managers : reuse_index(m)

\* the environment damages a stored document: configs/<id>.json or
\* index.json exists but json.load raises on it (lines 28-30, 214-217)
CorruptRecord(config_id) ==
    /\ cfg_files[config_id] # NoFile
    /\ cfg_files[config_id] # CorruptDoc
    /\ cfg_files' = [cfg_files EXCEPT ![config_id] = CorruptDoc]
    /\ ar_ret' = ArRet("corrupt", ar_ret.mgr, config_id, FALSE)
    /\ streak' = NoStreak
    /\ UNCHANGED <<rb, clock, index_file, mgr, saveLog, nReuse>>

\* a record document is removed outside the manager
RemoveRecord(config_id) ==
    /\ cfg_files[config_id] # NoFile
    /\ cfg_files' = [cfg_files EXCEPT ![config_id] = NoFile]
    /\ ar_ret' = ArRet("remove", ar_ret.mgr, config_id, FALSE)
    /\ streak' = NoStreak
    /\ UNCHANGED <<rb, clock, index_file, mgr, saveLog, nReuse>>

CorruptIndex ==
    /\ index_file # NoFile
    /\ index_file # CorruptDoc
    /\ index_file' = CorruptDoc
    /\ ar_ret' = ArRet("corrupt", ar_ret.mgr, 0 - 1, FALSE)
    /\ streak' = NoStreak
    /\ UNCHANGED <<rb, clock, cfg_files, mgr, saveLog, nReuse>>

\* ------------------------------------------------ similarity and search
\* dict.get(key, default)
Get(d, key, default) == IF key \in DOMAIN d THEN d[key] ELSE default

None == "<None>"                   \* what dict.get returns for a missing key

\* Scores are kept exact, as fractions <<numerator, denominator>>.
FAdd(x, y) == <<x[1] * y[2] + y[1] * x[2], x[2] * y[2]>>
FMul(x, y) == <<x[1] * y[1], x[2] * y[2]>>
FGe(x, y) == x[1] * y[2] >= y[1] * x[2]
FEq(x, y) == x[1] * y[2] = y[1] * x[2]
FMin(x, y) == IF FGe(x, y) THEN y ELSE x

\* lines 130-134
weights == [project_type |-> <<4, 10>>, tech_stack |-> <<4, 10>>, size |-> <<2, 10>>]

\* a scoring that also awards the size weight to a full match
calculate_similarity_withSize(project_info, config) ==
    LET typeEq == Get(project_info, "project_type", None) = Get(config, "project_type", None)
        ps == Range(Get(project_info, "tech_stack", <<>>))
        cs == Range(Get(config, "tech_stack", <<>>))
        s1 == IF typeEq THEN weights.project_type ELSE <<0, 1>>
        s2 == IF ps # {} /\ cs # {}
              THEN FAdd(s1, FMul(weights.tech_stack,
                                 <<Cardinality(ps \cap cs), Cardinality(ps \cup cs)>>))
              ELSE s1
        s3 == IF typeEq /\ ps = cs THEN FAdd(s2, weights.size) ELSE s2
    IN FMin(s3, <<1, 1>>)

\* a scoring that divides the overlap by the size of the query's stack
calculate_similarity_overQuery(project_info, config) ==
    LET typeEq == Get(project_info, "project_type", None) = Get(config, "project_type", None)
        ps == Range(Get(project_info, "tech_stack", <<>>))
        cs == Range(Get(config, "tech_stack", <<>>))
        s1 == IF typeEq THEN weights.project_type ELSE <<0, 1>>
        s2 == IF ps # {} /\ cs # {}
              THEN FAdd(s1, FMul(weights.tech_stack,
                                 <<Cardinality(ps \cap cs), Cardinality(ps)>>))
              ELSE s1
    IN FMin(s2, <<1, 1>>)

\* _calculate_similarity
calculate_similarity(project_info, config) ==
    LET score0 == <<0, 1>>
        score1 == IF Get(project_info, "project_type", None)
                       = Get(config, "project_type", None)
                  THEN FAdd(score0, weights.project_type)
                  ELSE score0
        project_stack == Range(Get(project_info, "tech_stack", <<>>))
        config_stack == Range(Get(config, "tech_stack", <<>>))
        score2 == IF project_stack # {} /\ config_stack # {}
                  THEN LET intersection == Cardinality(project_stack \cap config_stack)
                           union == Cardinality(project_stack \cup config_stack)
                           tech_similarity == IF union > 0 THEN <<intersection, union>>
                                              ELSE <<0, 1>>
                       IN FAdd(score1, FMul(weights.tech_stack, tech_similarity))
                  ELSE score1
    IN FMin(score2, <<1, 1>>)

\* round(x, 2): the nearest hundredth, as a fraction over 100 (no score of
\* stacks with fewer than 16 technologies lies halfway between two hundredths)
Round2(x) == <<(200 * x[1] + x[2]) \div (2 * x[2]), 100>>

\* the loop given up at the first entry whose record does not load
RECURSIVE FindLoop_stops(_, _, _, _, _)
FindLoop_stops(configurations, i, project_info, min_similarity, similar) ==
    IF i > Len(configurations) THEN similar
    ELSE LET config_ref == configurations[i]
         IN IF ~HasConfiguration(config_ref.config_id)
            THEN similar
            ELSE LET config == LoadConfiguration(config_ref.config_id)
                     similarity == calculate_similarity(project_info, config)
                 IN FindLoop_stops(configurations, i + 1, project_info, min_similarity,
                        IF FGe(similarity, min_similarity)
                        THEN Append(similar,
                                 [similarity |-> Round2(similarity),
                                  full_config |-> config] @@ config_ref)
                        ELSE similar)

\* lines 103-115 from position i on: the entries kept so far are in similar
RECURSIVE FindLoop(_, _, _, _, _)
FindLoop(configurations, i, project_info, min_similarity, similar) ==
    IF i > Len(configurations) THEN similar
    ELSE LET config_ref == configurations[i]
         IN IF ~HasConfiguration(config_ref.config_id)
            THEN FindLoop(configurations, i + 1, project_info, min_similarity, similar)
            ELSE LET config == LoadConfiguration(config_ref.config_id)
                     similarity == calculate_similarity(project_info, config)
                 IN FindLoop(configurations, i + 1, project_info, min_similarity,
                        IF FGe(similarity, min_similarity)
                        THEN Append(similar,
                                 [similarity |-> Round2(similarity),
                                  full_config |-> config] @@ config_ref)
                        ELSE similar)

\* an insertion that puts x in front of the entries of its own score
InsertDesc_unstable(sorted, x) ==
    LET before == SelectSeq(sorted, LAMBDA y : ~FGe(x.similarity, y.similarity))
        after == SelectSeq(sorted, LAMBDA y : FGe(x.similarity, y.similarity))
    IN before \o <<x>> \o after

\* x put into a list sorted by similarity, descending, behind the entries
\* of its own score
InsertDesc(sorted, x) ==
    LET before == SelectSeq(sorted, LAMBDA y : FGe(y.similarity, x.similarity))
        after == SelectSeq(sorted, LAMBDA y : ~FGe(y.similarity, x.similarity))
    IN before \o <<x>> \o after

\* line 118: list.sort(key=similarity, reverse=True), a stable sort
RECURSIVE SortDesc(_, _, _)
SortDesc(similar, i, sorted) ==
    IF i > Len(similar) THEN sorted
    ELSE SortDesc(similar, i + 1, InsertDesc(sorted, similar[i]))

\* what find_similar_configurations returns to instance m
FindSimilar(m, project_info, min_similarity) ==
    SortDesc(FindLoop(mgr[m].index.configurations, 1, project_info,
                      min_similarity, <<>>),
             1, <<>>)

find_similar_configurations(m, project_info, min_similarity) ==
    /\ mgr[m].alive
    /\ LET similar == FindSimilar(m, project_info, min_similarity)
       IN ar_ret' = [op |-> "find_similar_configurations", mgr |-> m,
                     config_id |-> 0 - 1, found |-> similar # <<>>,
                     project_info |-> project_info,
                     min_similarity |-> min_similarity,
                     similar |-> similar]
    /\ streak' = NoStreak
    /\ UNCHANGED <<rb, clock, cfg_files, index_file, mgr, saveLog, nReuse>>

\* line 188: the threshold of a recommendation
RecommendThreshold == <<75, 100>>

\* lines 195-206: the recommendation made from the best match
Recommendation(best_match) ==
    [recommended |-> TRUE,
     config_id |-> best_match.config_id,
     similarity |-> best_match.similarity,
     project_name |-> best_match.project_name,
     created_at |-> best_match.created_at,
     reuse_count |-> best_match.reuse_count,
     time_saved |-> "5-10 minutes (no need to regenerate)",
     agents |-> best_match.full_config.agents_used,
     skills |-> best_match.full_config.skills_generated,
     reason |-> <<"This configuration was successful for a similar",
                  best_match.project_type, "project">>]

\* line 193
BestMatch(similar) == similar[1]

\* the recommendation is in recommendation[1]; None is the empty sequence
get_reuse_recommendation(m, project_info) ==
    /\ mgr[m].alive
    /\ LET similar == FindSimilar(m, project_info, RecommendThreshold)
       IN ar_ret' = [op |-> "get_reuse_recommendation", mgr |-> m,
                     config_id |-> IF similar = <<>> THEN 0 - 1
                                   ELSE BestMatch(similar).config_id,
                     found |-> similar # <<>>,
                     project_info |-> project_info,
                     recommendation |-> IF similar = <<>> THEN <<>>
                                        ELSE <<Recommendation(BestMatch(similar))>>]
    /\ streak' = NoStreak
    /\ UNCHANGED <<rb, clock, cfg_files, index_file, mgr, saveLog, nReuse>>

\* the query of the example run (lines 275-279), the stack of the example
\* record itself, and a one-technology query
ExampleQuery == [project_type |-> "programming",
                 tech_stack |-> <<"TypeScript", "React", "Vite">>,
                 existing_tools |-> <<"ESLint">>]
SameStackQuery == [project_type |-> "programming",
                   tech_stack |-> <<"TypeScript", "React", "Next.js">>]
OneTechQuery == [project_type |-> "programming", tech_stack |-> <<"TypeScript">>]

\* the searches made: query and min_similarity (0.7 is the default, line 86)
Searches == {<<ExampleQuery, <<7, 10>>>>, <<ExampleQuery, <<5, 10>>>>,
             <<OneTechQuery, <<533, 1000>>>>, <<SameStackQuery, <<0, 1>>>>}
Queries == {ExampleQuery, SameStackQuery}

SearchNext ==
    \/ \E m \in Managers : Construct(m)
    \/ \E m \in Managers, config \in Configs : save_configuration(m, config)
    \/ \E m \in Managers, config_id \in ConfigIds : reuse_configuration(m, config_id)
    \/ \E m \in Managers, search \in Searches :
          find_similar_configurations(m, search[1], search[2])
    \/ \E m \in Managers, project_info \in Queries :
          get_reuse_recommendation(m, project_info)
    \/ ArTick

\* ---------------------------------------------------------- specifications
Init == RbInit /\ ArInit

\* The configuration store with its searches, used by up to two manager
\* instances, one call at a time
SpecSearch == Init /\ [][SearchNext]_vars

\* Saving and searching only, by up to two manager instances
FindNext ==
    \/ \E m \in Managers : Construct(m)
    \/ \E m \in Managers, config \in Configs : save_configuration(m, config)
    \/ \E m \in Managers, search \in Searches :
          find_similar_configurations(m, search[1], search[2])
    \/ ArTick

SpecFind == Init /\ [][FindNext]_vars

\* the store with documents that get damaged between calls
CorruptNext ==
    \/ \E m \in Managers : Construct(m)
    \/ \E m \in Managers, config \in Configs : save_configuration(m, config)
    \/ \E m \in Managers, config_id \in ConfigIds : reuse_configuration(m, config_id)
    \/ \E config_id \in ConfigIds : CorruptRecord(config_id)
    \/ CorruptIndex
    \/ ArTick

SpecCorrupt == Init /\ [][CorruptNext]_vars

\* saving and searching by one manager while record documents get damaged
\* or removed
FindCorruptNext ==
    \/ \E config \in Configs : save_configuration("m1", config)
    \/ \E search \in Searches : find_similar_configurations("m1", search[1], search[2])
    \/ \E config_id \in ConfigIds : CorruptRecord(config_id)
    \/ \E config_id \in ConfigIds : RemoveRecord(config_id)
    \/ ArTick

SpecFindCorrupt == Init /\ [][FindCorruptNext]_vars

\* Two processes on one storage directory, the second started at any moment,
\* whose calls interleave at their file accesses, within one second
SpecRace == Init /\ [][RaceNext]_vars

\* --- _calculate_similarity alone, on arguments drawn from small sets
ScoreTypes == {"programming", "documentation"}
ScoreStacks ==
    {<<>>, <<"TypeScript">>, <<"React">>, <<"TypeScript", "React">>,
     <<"React", "TypeScript">>, <<"TypeScript", "TypeScript">>,
     <<"TypeScript", "React", "Next.js">>, <<"TypeScript", "React", "Vite">>}

\* dicts with and without the keys the code reads with .get (lines 126-127)
ScoreArgs ==
    {[project_type |-> t, tech_stack |-> s] : t \in ScoreTypes, s \in ScoreStacks}
      \cup {[tech_stack |-> s] : s \in ScoreStacks}
      \cup {[project_type |-> t] : t \in ScoreTypes}

ScoreInit ==
    /\ RbInit
    /\ cfg_files = [c \in ConfigIds |-> NoFile]
    /\ index_file = NoFile
    /\ mgr = [m \in Managers |->
                 [alive |-> m = "m1", index |-> [configurations |-> <<>>],
                  pc |-> "idle", config |-> <<>>]]
    /\ saveLog = <<>>
    /\ streak = NoStreak
    /\ nReuse = 0
    /\ ar_ret \in {[op |-> "query", project_info |-> project_info, config |-> config] :
                      project_info \in ScoreArgs, config \in ScoreArgs}

Score ==
    /\ ar_ret.op = "query"
    /\ ar_ret' = [op |-> "_calculate_similarity",
                  project_info |-> ar_ret.project_info,
                  config |-> ar_ret.config,
                  score |-> calculate_similarity(ar_ret.project_info, ar_ret.config)]
    /\ UNCHANGED <<rb, clock, cfg_files, index_file, mgr, saveLog, streak, nReuse>>

SpecScore == ScoreInit /\ [][Score]_vars

\* The configuration store used by up to two manager instances, one call at
\* a time
SpecReuse == Init /\ [][ArNext]_vars

RbCalls ==
    \/ \E d \in Descriptions : create_backup(d)
    \/ \E p \in Paths : track_file_creation(p)
    \/ \E p \in Paths : backup_file_before_change(p)
    \/ preview_rollback

RbFiles ==
    \/ \E p \in Paths, c \in Contents : WriteFile(p, c)
    \/ \E p \in Paths : RemoveFile(p)

\* Sessions, over time, in which no filesystem call raises and nobody touches
\* the backup tree
RbNextOk ==
    \/ RbCalls
    \/ RbFiles
    \/ RbTick
    \/ rollback_ok

SpecRollbackOk == Init /\ [][RbNextOk]_vars

\* Sessions, within one second, in which filesystem calls may raise and
\* snapshots may be removed
RbNext ==
    \/ RbCalls
    \/ RbFiles
    \/ rollback
    \/ \E p \in Paths : RemoveSnapshot(p)

SpecRollback == Init /\ [][RbNext]_vars

\* Sessions, within one second, whose manifest may be missing or damaged
\* when a call is made; no filesystem call raises
TrackingNext ==
    \/ RbCalls
    \/ RbFiles
    \/ rollback_ok
    \/ CorruptManifest

SpecTracking == Init /\ [][TrackingNext]_vars

\* One session with one backup: the automation tracks its changes, and then
\* two processes call rollback with their steps interleaved
NoRollbackYet == \A c \in Callers : callers[c] = NoCall

RbRaceNext ==
    \/ \E d \in Descriptions : ~HasManifest /\ create_backup(d)
    \/ \E p \in Paths : NoRollbackYet /\ track_file_creation(p)
    \/ \E p \in Paths : NoRollbackYet /\ backup_file_before_change(p)
    \/ \E p \in Paths, c \in Contents : NoRollbackYet /\ WriteFile(p, c)
    \/ \E c \in Callers : rollback_begin(c)
    \/ \E c \in Callers : rollback_passes(c)
    \/ \E c \in Callers : rollback_mark(c)

SpecRollbackRace == Init /\ [][RbRaceNext]_vars

\* ------------------------------------------------- properties: rollback
ManifestIs(flag) == HasManifest /\ LoadManifest.can_rollback = flag
BackedUp == Range(LoadManifest.backed_up_files)
Created == Range(LoadManifest.created_files)
SnapDir == snaps[LoadManifest.backup_id]
Performed == rb_ret.op = "rollback" /\ rb_ret.performed
ErrorsOf(kinds, p) == {i \in DOMAIN rb_ret.errors :
                          rb_ret.errors[i][1] \in kinds /\ rb_ret.errors[i][2] = p}

\* C1 (as claimed): the manifest of a session and backup_id, once its
\* can_rollback is false, never has can_rollback true again, whatever call
\* (create_backup included) follows.
C1_NeverRearmed ==
    [][(ManifestIs(FALSE) /\ HasManifest'
            /\ LoadManifest'.session_id = LoadManifest.session_id
            /\ LoadManifest'.backup_id = LoadManifest.backup_id)
        => ~LoadManifest'.can_rollback]_vars

\* C2 (as claimed): the snapshot kept for a modified path is the content seen
\* by the first backup_file_before_change call of this manifest, and a
\* rollback that restores the path (and does not delete it) leaves that
\* first content in the working tree.
C2_FirstSnapshotKept ==
    HasManifest =>
        /\ \A p \in BackedUp : SnapDir[p] = firstSeen[p]
        /\ Performed =>
              \A p \in Range(rb_ret.files_restored) \ Range(rb_ret.files_deleted) :
                  fs[p] = firstSeen[p]

\* C3: a rollback call on a manifest whose can_rollback is false returns the
\* "already performed" failure and leaves the manifest document, the
\* snapshot tree and every file as they were.
C3_SecondRollbackRefused ==
    [][(rb_ret'.op = "rollback" /\ ManifestIs(FALSE))
        => /\ ~rb_ret'.success /\ ~rb_ret'.performed
           /\ rb_ret'.message = MsgAlready
           /\ manifest_file' = manifest_file
           /\ fs' = fs
           /\ snaps' = snaps]_vars

\* a refused rollback on a consumed manifest, at a moment when replaying the
\* restore would have changed a file
C3_Witness ==
    /\ rb_ret.op = "rollback" /\ rb_ret.message = MsgAlready
    /\ ManifestIs(FALSE)
    /\ "rolled_back_at" \in DOMAIN LoadManifest
    /\ \E p \in BackedUp : SnapDir[p] # Absent /\ fs[p] # SnapDir[p]

\* C4: when no filesystem call fails, a performed rollback reports success,
\* leaves can_rollback false, leaves every path that was backed up once (and
\* not also tracked as created) with the content it had at that backup call,
\* and leaves no file at any path tracked as created.
C4_EndToEnd ==
    Performed =>
        /\ rb_ret.success
        /\ ManifestIs(FALSE)
        /\ \A p \in BackedUp \ Created : backupCalls[p] = 1 => fs[p] = firstSeen[p]
        /\ \A q \in Created : fs[q] = Absent

\* the end-to-end example: a.txt backed up once holding the original content
\* and restored to it, b.txt tracked as created and deleted
C4_Witness ==
    /\ Performed /\ rb_ret.success
    /\ ManifestIs(FALSE)
    /\ backupCalls["a.txt"] = 1 /\ firstSeen["a.txt"] = Original
    /\ rb_ret.files_restored = <<"a.txt">> /\ fs["a.txt"] = Original
    /\ rb_ret.files_deleted = <<"b.txt">> /\ fs["b.txt"] = Absent

\* C5: a performed rollback accounts for every tracked path: each modified
\* path is either restored or has exactly one error entry, each created path
\* is deleted, has exactly one error entry, or had no file; restored paths
\* hold their snapshot, and the error list has no other entry.
C5_EveryPathAttempted ==
    Performed =>
        /\ \A p \in BackedUp :
              /\ InSeq(p, rb_ret.files_restored)
                    <=> ErrorsOf({"Error restoring", "Backup not found"}, p) = {}
              /\ Cardinality(ErrorsOf({"Error restoring", "Backup not found"}, p)) <= 1
              /\ InSeq(p, rb_ret.files_restored) /\ ~InSeq(p, rb_ret.files_deleted)
                    => fs[p] = SnapDir[p]
        /\ \A q \in Created :
              /\ \/ InSeq(q, rb_ret.files_deleted) /\ fs[q] = Absent
                 \/ Cardinality(ErrorsOf({"Error deleting"}, q)) = 1 /\ fs[q] # Absent
                 \/ fs[q] = Absent /\ ErrorsOf({"Error deleting"}, q) = {}
              /\ InSeq(q, rb_ret.files_deleted) => ErrorsOf({"Error deleting"}, q) = {}
        /\ Len(rb_ret.errors) =
              Cardinality({p \in BackedUp : ~InSeq(p, rb_ret.files_restored)})
              + Cardinality({q \in Created : ErrorsOf({"Error deleting"}, q) # {}})

\* a rollback whose first modified path failed and whose second was still
\* restored, and whose created path was still deleted
C5_Witness ==
    /\ Performed /\ ~rb_ret.success
    /\ Len(LoadManifest.backed_up_files) = 2
    /\ ErrorsOf({"Error restoring", "Backup not found"},
                LoadManifest.backed_up_files[1]) # {}
    /\ rb_ret.files_restored = <<LoadManifest.backed_up_files[2]>>
    /\ Len(rb_ret.files_deleted) = 1

\* C6: a rollback call that starts with can_rollback true leaves a manifest
\* with can_rollback false and rolled_back_at set, whatever failed, and its
\* success flag is true exactly when its error list is empty.
C6_ConsumedUnconditionally ==
    [][(rb_ret'.op = "rollback" /\ ManifestIs(TRUE))
        => /\ HasManifest'
           /\ ~LoadManifest'.can_rollback
           /\ "rolled_back_at" \in DOMAIN LoadManifest'
           /\ rb_ret'.performed
           /\ rb_ret'.success <=> (rb_ret'.errors = <<>>)]_vars

\* a rollback in which every attempted path failed, and the manifest is
\* consumed all the same
C6_Witness ==
    /\ Performed /\ ~rb_ret.success
    /\ rb_ret.files_restored = <<>> /\ rb_ret.files_deleted = <<>>
    /\ Len(rb_ret.errors) >= 2
    /\ ManifestIs(FALSE)
    /\ "rolled_back_at" \in DOMAIN LoadManifest

\* ------------------------------------------ properties: configuration store
IndexEntries == LoadIndex.configurations

\* C7 (as claimed): every entry of the index document has the reuse_count of
\* the record document with the same config_id.
C7_IndexMatchesRecord ==
    \A i \in DOMAIN IndexEntries :
        HasConfiguration(IndexEntries[i].config_id)
            => IndexEntries[i].reuse_count
                 = LoadConfiguration(IndexEntries[i].config_id).reuse_count

\* C8 (as claimed): no two save_configuration calls return the same
\* identifier, and no two index entries share a config_id.
C8_UniqueIds ==
    /\ \A i, j \in DOMAIN saveLog :
          i # j => saveLog[i].config_id # saveLog[j].config_id
    /\ \A i, j \in DOMAIN IndexEntries :
          i # j => IndexEntries[i].config_id # IndexEntries[j].config_id

\* C9 (as claimed): after the n-th of n reuse_configuration calls made in a
\* row on a record right after its save, through the instance that saved it,
\* the record's reuse_count is n and every index entry of that id has the
\* record's reuse_count.
C9_ReuseCounts ==
    (ar_ret.op = "reuse_configuration" /\ ar_ret.found /\ streak.n >= 1)
        => /\ HasConfiguration(streak.config_id)
           /\ LoadConfiguration(streak.config_id).reuse_count = streak.n
           /\ \A i \in DOMAIN IndexEntries :
                 IndexEntries[i].config_id = streak.config_id
                     => IndexEntries[i].reuse_count = streak.n

\* C10 (as claimed): the record loaded for the id a save returned has the
\* saved payload on every payload field and no other fields than config_id,
\* created_at and reuse_count, also after later saves.
C10_LoadReturnsSaved ==
    \A i \in DOMAIN saveLog :
        /\ HasConfiguration(saveLog[i].config_id)
        /\ LET loaded == LoadConfiguration(saveLog[i].config_id)
               config == saveLog[i].config
           IN /\ DOMAIN loaded = DOMAIN config \cup {"config_id", "created_at", "reuse_count"}
              /\ loaded.config_id = saveLog[i].config_id
              /\ \A k \in DOMAIN config : loaded[k] = config[k]

\* ------------------------------------ properties: records, index, search
Records == {config_id \in ConfigIds : HasConfiguration(config_id)}
WithoutCount(d) == [k \in DOMAIN d \ {"reuse_count"} |-> d[k]]
ReuseStepOn(config_id) ==
    ar_ret'.op = "reuse_configuration" /\ ar_ret'.found /\ ar_ret'.config_id = config_id

\* C11 (as claimed): a record document, once written, keeps every field
\* other than reuse_count in every later step.
C11_FieldsImmutable ==
    [][\A config_id \in Records :
          /\ HasConfiguration(config_id)'
          /\ WithoutCount(LoadConfiguration(config_id)')
               = WithoutCount(LoadConfiguration(config_id))]_vars

\* C12 (as claimed): the reuse_count of a record and of an index entry never
\* decreases, and changes only in a reuse_configuration step on its id.
C12_CountOnlyByReuse ==
    [][/\ \A config_id \in Records :
             HasConfiguration(config_id)' =>
               /\ LoadConfiguration(config_id)'.reuse_count
                    >= LoadConfiguration(config_id).reuse_count
               /\ LoadConfiguration(config_id)'.reuse_count
                    # LoadConfiguration(config_id).reuse_count
                    => ReuseStepOn(config_id)
       /\ \A i \in DOMAIN IndexEntries :
             (i \in DOMAIN IndexEntries'
                 /\ WithoutCount(IndexEntries'[i]) = WithoutCount(IndexEntries[i])) =>
               /\ IndexEntries'[i].reuse_count >= IndexEntries[i].reuse_count
               /\ IndexEntries'[i].reuse_count # IndexEntries[i].reuse_count
                    => ReuseStepOn(IndexEntries[i].config_id)]_vars

\* C13 (as claimed): every step leaves each entry of the index document in
\* its place, changed at most in its reuse_count, and adds new entries only
\* behind them.
C13_IndexAppendOnly ==
    [][/\ Len(IndexEntries') >= Len(IndexEntries)
       /\ \A i \in DOMAIN IndexEntries :
             i \in DOMAIN IndexEntries'
                => WithoutCount(IndexEntries'[i]) = WithoutCount(IndexEntries[i])]_vars

\* C14 (as claimed): a document that exists but does not parse is reported
\* as a condition of its own: reuse_configuration on a corrupt record returns
\* something other than what it returns for an unknown id, and an instance
\* opened on a corrupt index does not hold the empty index.
C14_CorruptIsDistinct ==
    /\ (ar_ret.op = "reuse_configuration" /\ cfg_files[ar_ret.config_id] = CorruptDoc)
          => ar_ret # ArRet("reuse_configuration", ar_ret.mgr, ar_ret.config_id, FALSE)
    /\ (ar_ret.op = "init" /\ index_file = CorruptDoc)
          => mgr[ar_ret.mgr].index # [configurations |-> <<>>]

\* C15: reuse_configuration on an id with no record document reports
\* not-found and writes nothing: the record documents, the index document and
\* every instance's index are as before the call.
C15_UnknownIdNoEffect ==
    [][(ar_ret'.op = "reuse_configuration" /\ cfg_files[ar_ret'.config_id] = NoFile)
          => /\ ~ar_ret'.found
             /\ cfg_files' = cfg_files
             /\ index_file' = index_file
             /\ mgr' = mgr]_vars

\* an unknown id was asked of a store that holds a record, by an instance
\* whose index differs from the index document
C15_Witness ==
    /\ ar_ret.op = "reuse_configuration"
    /\ ~ar_ret.found
    /\ cfg_files[ar_ret.config_id] = NoFile
    /\ Records # {}
    /\ mgr[ar_ret.mgr].index # LoadIndex

\* C16 (as claimed): every entry returned by find_similar_configurations
\* carries a score not below min_similarity, and every stored record that
\* scores at least min_similarity against the query is returned.
C16_ThresholdExact ==
    ar_ret.op = "find_similar_configurations" =>
       /\ \A i \in DOMAIN ar_ret.similar :
             FGe(ar_ret.similar[i].similarity, ar_ret.min_similarity)
       /\ \A config_id \in Records :
             FGe(calculate_similarity(ar_ret.project_info, LoadConfiguration(config_id)),
                 ar_ret.min_similarity)
                => \E i \in DOMAIN ar_ret.similar :
                      ar_ret.similar[i].config_id = config_id

\* the index entry a returned entry was made from (line 110)
ConfigRef(entry) == [k \in DOMAIN entry \ {"similarity", "full_config"} |-> entry[k]]

\* C17: the list returned by find_similar_configurations is in descending
\* order of the carried score, and two returned entries of equal score stand
\* in the order their entries have in the searching instance's index.
C17_SortedStable ==
    ar_ret.op = "find_similar_configurations" =>
       LET similar == ar_ret.similar
           configurations == mgr[ar_ret.mgr].index.configurations
       IN \A i, j \in DOMAIN similar :
             i < j =>
                /\ FGe(similar[i].similarity, similar[j].similarity)
                /\ similar[i].similarity = similar[j].similarity
                     => \E p, q \in DOMAIN configurations :
                           /\ p < q
                           /\ configurations[p] = ConfigRef(similar[i])
                           /\ configurations[q] = ConfigRef(similar[j])

\* a search returned two different entries of the same score
C17_Witness ==
    /\ ar_ret.op = "find_similar_configurations"
    /\ Len(ar_ret.similar) = 2
    /\ ar_ret.similar[1].similarity = ar_ret.similar[2].similarity
    /\ ar_ret.similar[1].config_id # ar_ret.similar[2].config_id

\* the score as the claim words it: 0.4 for equal project types plus
\* 0.4 * |Q \cap C| / |Q \cup C| when both stacks are non-empty
JaccardScore(project_info, config) ==
    LET Q == Range(project_info.tech_stack)
        C == Range(config.tech_stack)
        t == IF project_info.project_type = config.project_type THEN 1 ELSE 0
    IN IF Q # {} /\ C # {}
       THEN <<4 * t * Cardinality(Q \cup C) + 4 * Cardinality(Q \cap C),
              10 * Cardinality(Q \cup C)>>
       ELSE <<4 * t, 10>>

IsExampleRecord(config_id) ==
    /\ HasConfiguration(config_id)
    /\ LoadConfiguration(config_id).project_type = "programming"
    /\ Range(LoadConfiguration(config_id).tech_stack) = {"TypeScript", "React", "Next.js"}

\* C18: every returned entry carries the score 0.4 [types equal] + 0.4 *
\* Jaccard(stacks), to two decimals; for the query {programming, {TypeScript,
\* React, Vite}} an indexed record {programming, {TypeScript, React, Next.js}}
\* is not returned at threshold 0.7 and is returned with 0.6 at threshold 0.5.
C18_ScoreFormula ==
    ar_ret.op = "find_similar_configurations" =>
       LET similar == ar_ret.similar
           configurations == mgr[ar_ret.mgr].index.configurations
       IN /\ \A i \in DOMAIN similar :
                similar[i].similarity
                   = Round2(JaccardScore(ar_ret.project_info, similar[i].full_config))
          /\ ar_ret.project_info = ExampleQuery =>
                \A p \in DOMAIN configurations :
                   IsExampleRecord(configurations[p].config_id) =>
                      /\ ar_ret.min_similarity = <<7, 10>> =>
                            \A i \in DOMAIN similar :
                               similar[i].config_id # configurations[p].config_id
                      /\ ar_ret.min_similarity = <<5, 10>> =>
                            \E i \in DOMAIN similar :
                               /\ similar[i].config_id = configurations[p].config_id
                               /\ similar[i].similarity = <<60, 100>>

\* the example search at threshold 0.5 returned the example record
C18_Witness ==
    /\ ar_ret.op = "find_similar_configurations"
    /\ ar_ret.project_info = ExampleQuery
    /\ ar_ret.min_similarity = <<5, 10>>
    /\ \E i \in DOMAIN ar_ret.similar :
          /\ IsExampleRecord(ar_ret.similar[i].config_id)
          /\ ar_ret.similar[i].similarity = <<60, 100>>

SameTypeAndStack(project_info, config) ==
    /\ "project_type" \in DOMAIN project_info \cap DOMAIN config
    /\ "tech_stack" \in DOMAIN project_info \cap DOMAIN config
    /\ project_info.project_type = config.project_type
    /\ Range(project_info.tech_stack) = Range(config.tech_stack)
    /\ project_info.tech_stack # <<>>

\* C19: every score lies between 0 and 0.8, and a query and a record with
\* the same project_type and the same non-empty tech stack score exactly 0.8.
C19_ScoreRange ==
    ar_ret.op = "_calculate_similarity" =>
       /\ FGe(ar_ret.score, <<0, 1>>)
       /\ FGe(<<8, 10>>, ar_ret.score)
       /\ SameTypeAndStack(ar_ret.project_info, ar_ret.config)
             => FEq(ar_ret.score, <<8, 10>>)

\* a full match was scored
C19_Witness ==
    /\ ar_ret.op = "_calculate_similarity"
    /\ SameTypeAndStack(ar_ret.project_info, ar_ret.config)
    /\ Len(ar_ret.config.tech_stack) = 3
    /\ FEq(ar_ret.score, <<8, 10>>)

Qualifies(project_info, config_id) ==
    FGe(calculate_similarity(project_info, LoadConfiguration(config_id)),
        RecommendThreshold)

\* C20 (as claimed): get_reuse_recommendation returns none exactly when no
\* stored record scores at least 0.75 against the query; otherwise it names a
\* stored record of the highest score and reports that record's project
\* name, creation time, agent and skill lists and current reuse_count.
C20_Recommendation ==
    ar_ret.op = "get_reuse_recommendation" =>
       LET project_info == ar_ret.project_info
       IN /\ ar_ret.recommendation = <<>>
                <=> ~ \E config_id \in Records : Qualifies(project_info, config_id)
          /\ ar_ret.recommendation # <<>> =>
                LET r == ar_ret.recommendation[1]
                    config == LoadConfiguration(r.config_id)
                IN /\ r.config_id \in Records
                   /\ r.similarity = Round2(calculate_similarity(project_info, config))
                   /\ \A other \in Records :
                         FGe(calculate_similarity(project_info, config),
                             calculate_similarity(project_info,
                                                  LoadConfiguration(other)))
                   /\ r.project_name = config.project_name
                   /\ r.created_at = config.created_at
                   /\ r.agents = config.agents_used
                   /\ r.skills = config.skills_generated
                   /\ r.reuse_count = config.reuse_count

\* ------------------------------------- properties: manifest and tracking
\* the manifest documents the session directory holds: manifest.json alone
\* (line 20), when it is there and parses
Manifests == IF HasManifest THEN {LoadManifest} ELSE {}

\* state CREATED: nothing tracked, rollback possible
IsCreated(manifest) ==
    /\ manifest.backed_up_files = <<>>
    /\ manifest.created_files = <<>>
    /\ manifest.can_rollback
    /\ "rolled_back_at" \notin DOMAIN manifest

\* C21 (as claimed): a create_backup call leaves a manifest in state CREATED
\* for its backup_id and leaves the manifest of every earlier backup of the
\* session, with its tracked paths and can_rollback flag, on disk.
C21_ManifestPerBackup ==
    [][rb_ret'.op = "create_backup"
          => /\ HasManifest' /\ IsCreated(LoadManifest')
             /\ \A earlier \in Manifests :
                   earlier.backup_id # LoadManifest'.backup_id
                      => earlier \in Manifests']_vars

NoDuplicates(files) ==
    \A i, j \in DOMAIN files : files[i] = files[j] => i = j

\* C22: a track_file_creation call for a path already in created_files leaves
\* the manifest document as it was, and no path is ever listed in
\* created_files twice.
C22_TrackIdempotent ==
    [][rb_ret'.op = "track_file_creation" =>
          /\ (HasManifest /\ InSeq(rb_ret'.file_path, LoadManifest.created_files))
                => manifest_file' = manifest_file
          /\ HasManifest' => NoDuplicates(LoadManifest'.created_files)]_vars

\* a tracking call was made for a path that was already listed, next to
\* another listed path
C22_Witness ==
    /\ rb_ret.op = "track_file_creation"
    /\ HasManifest
    /\ Len(LoadManifest.created_files) = 2
    /\ LoadManifest.created_files[1] = rb_ret.file_path

\* C23: in a performed rollback, a path of created_files that has no file
\* when the delete pass comes to it (none before the call, and not restored
\* by this call) gets no error entry, is not reported as deleted and is
\* still absent afterwards; success is false only if some error was logged.
C23_MissingCreatedFile ==
    [][(rb_ret'.op = "rollback" /\ rb_ret'.performed /\ HasManifest) =>
          /\ \A q \in Created :
                (fs[q] = Absent /\ ~InSeq(q, rb_ret'.files_restored))
                   => /\ \A i \in DOMAIN rb_ret'.errors :
                            rb_ret'.errors[i] # <<"Error deleting", q>>
                      /\ ~InSeq(q, rb_ret'.files_deleted)
                      /\ fs'[q] = Absent
          /\ rb_ret'.success <=> rb_ret'.errors = <<>>]_vars

\* a successful rollback that deleted one created path and found no file at
\* the other
C23_Witness ==
    /\ Performed /\ rb_ret.success
    /\ Len(LoadManifest.created_files) = 2
    /\ Len(rb_ret.files_deleted) = 1
    /\ rb_ret.files_restored = <<>>
    /\ \A q \in Created : fs[q] = Absent

\* C24: a preview_rollback call changes neither the manifest document nor
\* the snapshot tree nor any file, and returns the manifest's backed_up_files
\* as will_restore, its created_files as will_delete and its can_rollback;
\* without a readable manifest it returns can_rollback false and a message.
C24_PreviewReadOnly ==
    [][rb_ret'.op = "preview_rollback" =>
          /\ manifest_file' = manifest_file
          /\ snaps' = snaps
          /\ fs' = fs
          /\ HasManifest =>
                /\ rb_ret'.will_restore = LoadManifest.backed_up_files
                /\ rb_ret'.will_delete = LoadManifest.created_files
                /\ rb_ret'.can_rollback = LoadManifest.can_rollback
          /\ ~HasManifest =>
                ~rb_ret'.can_rollback /\ rb_ret'.message = MsgPreviewNone]_vars

\* a preview of a consumed manifest that lists a path of each kind
C24_Witness ==
    /\ rb_ret.op = "preview_rollback"
    /\ ManifestIs(FALSE)
    /\ ~rb_ret.can_rollback
    /\ rb_ret.will_restore # <<>> /\ rb_ret.will_restore = LoadManifest.backed_up_files
    /\ rb_ret.will_delete # <<>> /\ rb_ret.will_delete = LoadManifest.created_files

\* ------------------------------------------- properties: concurrent calls
\* C25: the calls of two processes are not atomic: reuse_configuration
\* writes back the count it read plus one, whatever another process wrote to
\* the record since, and every index write replaces index.json by the
\* writing process's own copy.  (The state this leads to is C25_Witness.)
C25_UnserializedWrites ==
    [][\A m \in Managers :
          /\ (mgr[m].pc = "loaded" /\ mgr'[m].pc = "stored") =>
                LET config_id == mgr[m].config.config_id
                IN /\ LoadConfiguration(config_id)'.reuse_count
                         = mgr[m].config.reuse_count + 1
                   /\ index_file' = index_file
          /\ (mgr[m].pc \in {"stored", "written"} /\ mgr'[m].pc = "idle") =>
                /\ index_file' = DumpIndex(mgr'[m].index)
                /\ cfg_files' = cfg_files]_vars

\* an increment was lost: one record was saved once, two reuse calls on it
\* have completed, and the record counts one
C25_Witness ==
    /\ \A m \in Managers : Idle(m)
    /\ Len(saveLog) = 1
    /\ nReuse = 2
    /\ HasConfiguration(saveLog[1].config_id)
    /\ LoadConfiguration(saveLog[1].config_id).reuse_count = 1

\* C26: rollback is not atomic: a call that has read can_rollback true runs
\* its restore and delete passes from the manifest it read and then writes
\* that manifest as rolled back and reports a performed rollback, whatever
\* another call did to the manifest in between.  (Two such calls are
\* C26_Witness.)
C26_UnserializedRollback ==
    [][\A c \in Callers :
          /\ (callers[c].pc = "begun" /\ callers'[c].pc = "passed") =>
                LET manifest == callers[c].manifest
                    st0 == [fs |-> fs, files_restored |-> <<>>,
                            files_deleted |-> <<>>, errors |-> <<>>]
                IN /\ callers'[c].st =
                         DeleteLoop(manifest.created_files, 1, {},
                            RestoreLoop(manifest.backed_up_files, 1,
                                        snaps[manifest.backup_id], {}, st0))
                   /\ fs' = callers'[c].st.fs
                   /\ manifest_file' = manifest_file
          /\ (callers[c].pc = "passed" /\ callers'[c].pc = "idle") =>
                /\ callers'[c].result.performed
                /\ rb_ret' = callers'[c].result
                /\ HasManifest' /\ ~LoadManifest'.can_rollback]_vars

\* the session's one backup was rolled back twice: both processes report a
\* performed rollback that restored a file
C26_Witness ==
    /\ \A c \in Callers :
          /\ callers[c].pc = "idle"
          /\ callers[c].result.performed
          /\ callers[c].result.files_restored # <<>>
    /\ ManifestIs(FALSE)

\* C27: the restore pass comes before the delete pass: when no filesystem
\* call fails, a path listed both in backed_up_files and in created_files is
\* reported as restored and as deleted by a performed rollback, has no file
\* afterwards, and the rollback reports success.
C27_RestoreThenDelete ==
    Performed =>
        \A p \in BackedUp \cap Created :
            /\ InSeq(p, rb_ret.files_restored)
            /\ InSeq(p, rb_ret.files_deleted)
            /\ fs[p] = Absent
            /\ rb_ret.success

\* a rollback of a path tracked both ways, next to a path that was only
\* backed up and is restored
C27_Witness ==
    /\ Performed /\ rb_ret.success
    /\ Cardinality(BackedUp \cap Created) = 1
    /\ Len(rb_ret.files_restored) = 2
    /\ rb_ret.files_deleted # <<>>
    /\ \A p \in BackedUp \cap Created : fs[p] = Absent
    /\ \E p \in BackedUp \ Created : fs[p] # Absent

\* C28: a backup_file_before_change call for a path that has no file, and
\* any tracking call made without a readable manifest, changes neither the
\* manifest document nor the snapshot tree nor any file; and a rollback
\* restores only paths of backed_up_files, deletes only paths of
\* created_files and leaves every other path as it was.
C28_SilentNoOp ==
    [][/\ (/\ rb_ret'.op \in {"backup_file_before_change", "track_file_creation"}
           /\ \/ ~HasManifest
              \/ /\ rb_ret'.op = "backup_file_before_change"
                 /\ fs[rb_ret'.file_path] = Absent)
          => /\ manifest_file' = manifest_file
             /\ snaps' = snaps
             /\ fs' = fs
       /\ rb_ret'.op = "rollback" =>
             IF HasManifest
             THEN /\ Range(rb_ret'.files_restored) \subseteq BackedUp
                  /\ Range(rb_ret'.files_deleted) \subseteq Created
                  /\ \A p \in Paths \ (BackedUp \cup Created) : fs'[p] = fs[p]
             ELSE /\ fs' = fs
                  /\ ~rb_ret'.performed]_vars

\* a backup call was made for a path with no file, under a manifest that
\* tracks the other path, and left the path untracked
C28_Witness ==
    /\ rb_ret.op = "backup_file_before_change"
    /\ fs[rb_ret.file_path] = Absent
    /\ HasManifest
    /\ BackedUp # {}
    /\ rb_ret.file_path \notin BackedUp \cup Created
    /\ SnapDir[rb_ret.file_path] = Absent

\* C29: every path listed in the manifest's backed_up_files has a snapshot
\* file under the directory of the manifest's backup_id, and a performed
\* rollback reports no "Backup not found", as long as nobody but the manager
\* touches the backup tree.
C29_SnapshotForEveryPath ==
    HasManifest =>
        /\ \A p \in BackedUp : SnapDir[p] # Absent
        /\ Performed =>
              \A i \in DOMAIN rb_ret.errors : rb_ret.errors[i][1] # "Backup not found"

\* a rollback under the session's second backup, made a second later than
\* the first, restored a path from that backup's own directory
C29_Witness ==
    /\ Performed
    /\ LoadManifest.backup_id = 1
    /\ rb_ret.files_restored # <<>>
    /\ \E p \in Paths : snaps[0][p] # Absent

\* the entries of an index whose record document loads
Loadable(configurations) ==
    SelectSeq(configurations, LAMBDA e : HasConfiguration(e.config_id))

\* C30: find_similar_configurations returns no entry whose record document
\* is missing or does not parse, and returns what it would return if those
\* entries were not in the index.
C30_UnloadableSkipped ==
    ar_ret.op = "find_similar_configurations" =>
       LET configurations == mgr[ar_ret.mgr].index.configurations
       IN /\ \A i \in DOMAIN ar_ret.similar :
                HasConfiguration(ar_ret.similar[i].config_id)
          /\ ar_ret.similar =
                SortDesc(FindLoop(Loadable(configurations), 1, ar_ret.project_info,
                                  ar_ret.min_similarity, <<>>),
                         1, <<>>)

\* a search that returned an entry standing in the index behind an entry
\* whose record does not load
C30_Witness ==
    /\ ar_ret.op = "find_similar_configurations"
    /\ ar_ret.similar # <<>>
    /\ LET configurations == mgr[ar_ret.mgr].index.configurations
       IN \E p, q \in DOMAIN configurations :
             /\ p < q
             /\ ~HasConfiguration(configurations[p].config_id)
             /\ configurations[q].config_id = ar_ret.similar[1].config_id

====
